---------------------------- MODULE Spec2Model ----------------------------
(***************************************************************************)
(* Model of the rivetkit Rust actor client: the connection supervisor      *)
(* (clients/rust/src/connection.rs), the callers of its public methods     *)
(* (action, on_event, disconnect), the WebSocket driver task               *)
(* (clients/rust/src/drivers/ws.rs) and the server on the other side.      *)
(*                                                                         *)
(* Every tokio Mutex that is held across another suspension point is a     *)
(* variable naming its owner; a step that needs a held lock is disabled    *)
(* until the lock is released.  Locks that are taken, used and released    *)
(* without suspending in between (in_flight_rpcs, connection_id, ...)      *)
(* are folded into the atomic step that uses them.                         *)
(***************************************************************************)
EXTENDS Integers, Sequences, FiniteSets, TLC

(* ------------------------------ bounds -------------------------------- *)

\* number of tasks calling action() concurrently
NumCallers == 2
\* total number of action() calls (caps rpc_counter)
MaxRpc == 2
\* total number of try_connect attempts of the supervisor
MaxAttempts == 2
\* total number of frames the server sends
MaxInbound == 2
\* total number of on_event() calls
MaxOnEvent == 2
\* number of tasks calling disconnect()
NumDisconnectors == 2
\* number of resolve() futures of one stateless handle that may overlap
NumResolvers == 2
\* total number of resolve() calls on the handle
MaxResolve == 3
\* greatest number of actors in a response of the control plane
MaxActors == 3

Callers == 1..NumCallers
Disconnectors == 1..NumDisconnectors
RpcIds == 0..(MaxRpc - 1)
EventNames == {"joined"}

\* Option::None of an id
NoId == -1
\* lock owners: an unlocked Mutex, a caller of action(), the supervisor task,
\* the caller of on_event()
NoOwner == 0
SUP == NumCallers + 1
EVT == NumCallers + 2
Procs == Callers \cup {SUP, EVT}

(* ----------------------------- messages ------------------------------- *)

\* protocol/to_server.rs
ActionRequest(i) == [tag |-> "ActionRequest", id |-> i, name |-> "-"]
SubscriptionRequest(n) == [tag |-> "SubscriptionRequest", id |-> NoId, name |-> n]

\* protocol/to_client.rs
InitMsg(c) == [tag |-> "Init", id |-> c, name |-> "-"]
ActionResponse(i) == [tag |-> "ActionResponse", id |-> i, name |-> "-"]
ErrorMsg(i) == [tag |-> "Error", id |-> i, name |-> "-"]
EventMsg(n) == [tag |-> "Event", id |-> NoId, name |-> n]
NoMsg == [tag |-> "None", id |-> NoId, name |-> "-"]

\* the receiving half of a waiter's oneshot channel
Pending == [st |-> "pending", id |-> NoId]
Unused == [st |-> "unused", id |-> NoId]
Closed == [st |-> "closed", id |-> NoId]
Cancelled == [st |-> "cancelled", id |-> NoId]
RespOk(i) == [st |-> "ok", id |-> i]
RespErr(i) == [st |-> "err", id |-> i]

\* protocol/query.rs, ActorQuery; the key and the input of a query go to the
\* control plane as they are and are left out
ActorNames == {"chat", "room"}
ActorIds == {"a1", "a2"}
NoActor == "-"
GetForId(n, a) == [kind |-> "GetForId", name |-> n, actor_id |-> a]
GetForKey(n) == [kind |-> "GetForKey", name |-> n, actor_id |-> NoActor]
GetOrCreateForKey(n) == [kind |-> "GetOrCreateForKey", name |-> n, actor_id |-> NoActor]
Create(n) == [kind |-> "Create", name |-> n, actor_id |-> NoActor]
Queries ==
    {GetForId(n, a) : n \in ActorNames, a \in ActorIds}
        \cup {GetForKey(n) : n \in ActorNames}
        \cup {GetOrCreateForKey(n) : n \in ActorNames}
        \cup {Create(n) : n \in ActorNames}

\* anyhow::Result<String>
Ok(a) == [ok |-> TRUE, val |-> a]
Err(e) == [ok |-> FALSE, val |-> e]
NoResult == [ok |-> FALSE, val |-> "-"]

Resolvers == 1..NumResolvers

\* remote_manager.rs, Actor (the key is not read by get_for_id)
Actor(n, a) == [name |-> n, actor_id |-> a]
ActorLists ==
    UNION {[1..k -> {Actor(n, a) : n \in ActorNames, a \in ActorIds}] : k \in 0..MaxActors}

\* Option::None of a String
None == "None"

\* common.rs, the WS_PROTOCOL_ prefixes and PATH_CONNECT_WEBSOCKET
WS_PROTOCOL ==
    [STANDARD |-> "rivet", TARGET |-> "rivet_target.", ACTOR |-> "rivet_actor.",
     ENCODING |-> "rivet_encoding.", CONN_PARAMS |-> "rivet_conn_params.",
     CONN_ID |-> "rivet_conn.", CONN_TOKEN |-> "rivet_conn_token.",
     TOKEN |-> "rivet_token.", PATH |-> "/connect/websocket"]

\* the endpoints a RemoteManager is made with: a scheme and the rest
Endpoint(s) == [scheme |-> s, rest |-> "host:6420"]

\* the arguments of open_websocket, with self.endpoint and self.token
WsArgs ==
    [endpoint : {Endpoint(s) : s \in {"https://", "http://", "ws://", "ftp://"}},
     token : {None, "tok"},
     actor_id : {"a1"},
     encoding : {"json", "cbor"},
     params : {None, "{room:1}"},
     conn_id : {None, "c1"},
     conn_token : {None, "t1"}]

\* tungstenite::Message as ws_stream.next() yields it: Some(Ok(Text|Binary|
\* Ping|Close)), Some(Err(_)) and None; a body is a ToClient or is not one
Frame(kind, body) == [kind |-> kind, body |-> body]
\* a body the deserializer refuses
Unparsable == [tag |-> "?", id |-> NoId, name |-> "-"]

\* no request was given to connect_async
NoRequest == [url |-> <<>>, protocols |-> <<>>]

(* ----------------------------- variables ------------------------------ *)

VARIABLES
    \* ActorConnectionInner fields
    driver,              \* "None" | "Some": the driver slot
    msg_queue,           \* Seq of ToServer
    rpc_counter,         \* AtomicU64
    in_flight_rpcs,      \* set of ids that have a oneshot sender in the map
    event_subscriptions, \* event name -> number of callbacks (0: no entry)
    connection_id,       \* NoId, or the id of the last Init: stands for the triple
                         \* actor_id, connection_id, connection_token, which on_open
                         \* stores together and try_connect reads together
    dc_watch,            \* the watch channel's value
    disconnection_rx,    \* "None" | "Some"
    \* owners of the tokio mutexes held across suspension points
    driverLock, queueLock, subsLock,
    \* the supervisor task spawned by start_connection
    supPc, cur, did_open, draining, subIter, attempts, completion,
    conn_id,             \* try_connect's conn_id and conn_token of the current attempt
    retry_attempt,       \* start_connection's retry_attempt of the current Backoff
    \* the driver of the current attempt: its task, its two mpsc channels
    driverTask,          \* "none" | "running" | stop reason
    lane,                \* messages accepted by the outbound channel
    inbound,             \* messages in the inbound channel
    initSent, inboundCount,
    \* client
    shutdown,            \* "none" | "sent" | "received": the shutdown broadcast
    transport_kind,      \* "WebSocket" | "Sse": the transport the handle was made with
    sup2Pc,              \* the task of a second call of start_connection
    \* ActorHandleStateless
    query,               \* the RefCell<ActorQuery>
    rPc, rQuery, rRes,   \* resolve() futures: position, cloned query, Result
    resolves,            \* number of resolve() calls made
    plane_calls,         \* number of requests resolve() sent to the control plane
    query0,              \* history: the query the handle was made with
    firstOk,             \* history: the id the first successful resolve() returned
    overlapped,          \* history: two resolve() futures were in flight together
    \* RemoteManager::get_for_id
    http_ok,             \* the response's status is 2xx
    data,                \* the ActorsListResponse: Seq of Actor
    req_name,            \* the name argument
    found,               \* the Result<Option<String>> returned
    \* RemoteManager::open_websocket
    ws_args,             \* endpoint, token and the arguments of the call
    ws_out,              \* the error returned and the request given to connect_async
    \* drivers/ws.rs, the task running start
    out_rx,              \* the outbound channel: Seq of MessageToServer not yet received
    taken,               \* history: number of messages out_rx.recv() returned
    ws_sink,             \* the frames given to ws_sink.send that the socket took
    ends,                \* the channel ends the task's user holds: out_tx, in_rx
    ws_frame,            \* history: the last item of ws_stream.next()
    \* callers
    aPc, aId, aRes,      \* action() callers
    ePc, eName, eCalls,  \* the on_event() caller
    dPc,                 \* disconnect() callers
    \* history
    waiter,              \* id -> state of the oneshot receiver of that id
    emitted,             \* ids in the order action()'s send_msg emitted them
    sentCount,           \* id -> number of times its request was accepted by a driver
    allocAt              \* id -> number of emissions that preceded its allocation

connVars == <<driver, msg_queue, rpc_counter, in_flight_rpcs, event_subscriptions,
              connection_id, dc_watch, disconnection_rx>>
lockVars == <<driverLock, queueLock, subsLock>>
supVars == <<supPc, cur, did_open, draining, subIter, attempts, conn_id, retry_attempt,
             completion>>
drvVars == <<driverTask, lane, inbound, initSent, inboundCount>>
callerVars == <<aPc, aId, aRes, ePc, eName, eCalls, dPc>>
histVars == <<waiter, emitted, sentCount, allocAt>>
\* what the client holds besides the connection
handleVars == <<query, rPc, rQuery, rRes, resolves, plane_calls, query0, firstOk, overlapped>>
managerVars == <<http_ok, data, req_name, found, ws_args, ws_out>>
taskVars == <<out_rx, taken, ws_sink, ends, ws_frame>>
clientVars == <<transport_kind, sup2Pc, handleVars, managerVars, taskVars>>
vars == <<connVars, lockVars, supVars, drvVars, shutdown, clientVars, callerVars, histVars>>

(* ------------------------------- Init --------------------------------- *)

\* ActorConnectionInner::new with the handle's transport, followed by
\* start_connection's tokio::spawn
InitWith(kind) ==
    /\ transport_kind = kind
    /\ sup2Pc = "none"
    /\ retry_attempt = 0
    /\ out_rx = <<>> /\ taken = 0 /\ ws_sink = <<>> /\ ws_frame = Frame("-", NoMsg)
    /\ ends = [out_tx |-> TRUE, in_rx |-> TRUE]
    /\ driver = "None"
    /\ msg_queue = <<>>
    /\ rpc_counter = 0
    /\ in_flight_rpcs = {}
    /\ event_subscriptions = [n \in EventNames |-> 0]
    /\ connection_id = NoId
    /\ dc_watch = FALSE
    /\ disconnection_rx = "None"
    /\ driverLock = NoOwner /\ queueLock = NoOwner /\ subsLock = NoOwner
    /\ supPc = "spawned"
    /\ cur = NoMsg
    /\ did_open = FALSE
    /\ draining = <<>>
    /\ subIter = <<>>
    /\ attempts = 0
    /\ conn_id = NoId
    /\ completion = "none"
    /\ driverTask = "none"
    /\ lane = <<>>
    /\ inbound = <<>>
    /\ initSent = FALSE
    /\ inboundCount = 0
    /\ shutdown = "none"
    /\ aPc = [c \in Callers |-> "idle"]
    /\ aId = [c \in Callers |-> NoId]
    /\ aRes = [c \in Callers |-> Unused]
    /\ ePc = "idle"
    /\ eName = "-"
    /\ eCalls = 0
    /\ dPc = [d \in Disconnectors |-> "idle"]
    /\ waiter = [i \in RpcIds |-> Unused]
    /\ emitted = <<>>
    /\ sentCount = [i \in RpcIds |-> 0]
    /\ allocAt = [i \in RpcIds |-> NoId]

\* ActorHandleStateless::new
HandleNew(q) ==
    /\ query = q
    /\ query0 = q
    /\ rPc = [r \in Resolvers |-> "idle"]
    /\ rQuery = [r \in Resolvers |-> q]
    /\ rRes = [r \in Resolvers |-> NoResult]
    /\ resolves = 0
    /\ plane_calls = 0
    /\ firstOk = NoActor
    /\ overlapped = FALSE

\* RemoteManager::new and a call of get_for_id and of open_websocket that have
\* not returned yet
ManagerNew(ok, list, n, args) ==
    /\ http_ok = ok
    /\ data = list
    /\ req_name = n
    /\ found = NoResult
    /\ ws_args = args
    /\ ws_out = [err |-> "-", request |-> NoRequest]

\* Client::new: no token, an http endpoint
ClientNewArgs ==
    [endpoint |-> Endpoint("http://"), token |-> None, actor_id |-> "a1",
     encoding |-> "json", params |-> None, conn_id |-> None, conn_token |-> None]
ClientNew == ManagerNew(TRUE, <<>>, "chat", ClientNewArgs)

\* Client::get: a handle with a GetForKey query
ClientGet == HandleNew(GetForKey("chat")) /\ ClientNew

\* a connection made by a handle with the default transport
Init == InitWith("WebSocket") /\ ClientGet

\* a connection made by a handle with either transport
InitAnyTransport == (\E kind \in {"WebSocket", "Sse"} : InitWith(kind)) /\ ClientGet

\* a stateless handle made by Client::get, get_for_id, get_or_create or create,
\* or by ActorHandleStateless::new with a Create query
InitHandle == InitWith("WebSocket") /\ ClientNew /\ \E q \in Queries : HandleNew(q)

\* a call of get_for_id with any name and any response of the control plane
InitGetForId ==
    /\ InitWith("WebSocket") /\ HandleNew(GetForKey("chat"))
    /\ \E ok \in BOOLEAN, list \in ActorLists, n \in ActorNames :
          ManagerNew(ok, list, n, ClientNewArgs)

\* a call of open_websocket with any endpoint, token and arguments
InitOpenWebsocket ==
    /\ InitWith("WebSocket") /\ HandleNew(GetForKey("chat"))
    /\ \E args \in WsArgs : ManagerNew(TRUE, <<>>, "chat", args)

(* ------------------------------ helpers ------------------------------- *)

\* the keys of event_subscriptions
NoNames(subs) == {}
ActiveNames(subs) == {n \in EventNames : subs[n] > 0}

\* all orderings of a finite set, as sequences without repetition
Orderings(S) ==
    {f \in [1..Cardinality(S) -> S] : \A i, j \in 1..Cardinality(S) : i # j => f[i] # f[j]}

RequestIds(l) == {l[k].msg.id : k \in {j \in 1..Len(l) : l[j].msg.tag = "ActionRequest"}}

\* DriverHandle::send: the outbound mpsc channel accepts a message as long as the
\* driver task still owns its receiver
DriverSendOk(task) == task = "running"

\* send_msg, 'send_immediately: a driver is in the slot and its send succeeded
SendIgnoringResult(slot, task) == slot = "Some"
SendImmediately(slot, task) == slot = "Some" /\ DriverSendOk(task)

\* send_msg, the condition of the push to msg_queue
ShouldQueueAlways(ephemeral) == TRUE
ShouldQueue(ephemeral) == ephemeral = FALSE

\* rpc_counter.fetch_add(1): the value stored back
FetchAddStuck(c) == c
FetchAdd(c) == c + 1

\* try_connect: the credentials handed to connect_driver are clones of the
\* stored connection_id and connection_token
ResumeNothing(stored) == NoId
ResumeCredentials(stored) == stored

\* try_connect, 'destroy_driver: in_flight_rpcs after the teardown (the block
\* does not touch the map)
TeardownDropsWaiters(map) == {}
TeardownKeepsWaiters(map) == map

\* on_message, Error without an action id: in_flight_rpcs after the error has
\* been logged
ConnectionErrorFailsAll(map) == {}
ConnectionErrorLogged(map) == map

\* in_flight_rpcs.remove(&id): the keys whose sender is taken out of the map
\* (none when the id is absent)
RemoveAnyWaiter(map, id) == IF map = {} THEN {} ELSE {CHOOSE k \in map : \A j \in map : k <= j}
RemoveWaiter(map, id) == map \cap {id}

(* ------------------------------ send_msg ------------------------------ *)

\* The callers of send_msg and where each of them is when it calls it:
\* action() (SendMsgOpts::default()), send_subscription() from
\* add_event_subscription() and from on_open() (ephemeral), and the flush of
\* on_open() (SendMsgOpts::default()).
AtSendMsg(p) ==
    IF p \in Callers THEN aPc[p] = "send"
    ELSE IF p = EVT THEN ePc = "send"
    ELSE supPc \in {"open_sub_send", "flush_send"}

AtSendMsgQueue(p) ==
    IF p \in Callers THEN aPc[p] = "queue"
    ELSE IF p = EVT THEN ePc = "queue"
    ELSE supPc \in {"open_sub_queue", "flush_queue"}

\* the supervisor is in the subscription loop of on_open
SupInSubs == supPc \in {"open_sub_send", "open_sub_queue"}

SendMsgArg(p) ==
    IF p \in Callers THEN ActionRequest(aId[p])
    ELSE IF p = EVT THEN SubscriptionRequest(eName)
    ELSE IF SupInSubs THEN SubscriptionRequest(Head(subIter))
    ELSE Head(draining)

SendMsgEphemeral(p) ==
    IF p \in Callers THEN FALSE
    ELSE IF p = EVT THEN TRUE
    ELSE SupInSubs

\* who hands the message over: action() ("direct"), add_event_subscription()
\* ("sub"), the subscription loop of on_open ("resub"), or its flush ("flush")
SendMsgVia(p) ==
    IF p \in Callers THEN "direct"
    ELSE IF p = EVT THEN "sub"
    ELSE IF SupInSubs THEN "resub" ELSE "flush"

LaneEntry(p) == [msg |-> SendMsgArg(p), via |-> SendMsgVia(p), afterInit |-> did_open]

CountSent(m) ==
    IF m.tag = "ActionRequest"
    THEN [sentCount EXCEPT ![m.id] = @ + 1]
    ELSE sentCount

\* send_msg returns to its caller: action() goes on to await its waiter,
\* add_event_subscription() returns (releasing event_subscriptions), on_open()
\* goes on with the next subscription or the next drained message.
SendMsgReturn(p) ==
    IF p \in Callers THEN
        /\ aPc' = [aPc EXCEPT ![p] = "wait"]
        /\ emitted' = Append(emitted, aId[p])
        /\ UNCHANGED <<ePc, supPc, subIter, draining, subsLock, queueLock>>
    ELSE IF p = EVT THEN
        /\ ePc' = "idle"
        /\ subsLock' = NoOwner
        /\ UNCHANGED <<aPc, emitted, supPc, subIter, draining, queueLock>>
    ELSE IF SupInSubs THEN
        /\ subIter' = Tail(subIter)
        /\ IF Tail(subIter) = <<>>
           THEN subsLock' = NoOwner /\ supPc' = "flush_lock"
           ELSE subsLock' = subsLock /\ supPc' = "open_sub_send"
        /\ UNCHANGED <<aPc, emitted, ePc, draining, queueLock>>
    ELSE
        /\ draining' = Tail(draining)
        /\ IF Tail(draining) = <<>>
           THEN queueLock' = NoOwner /\ supPc' = "loop"
           ELSE queueLock' = queueLock /\ supPc' = "flush_send"
        /\ UNCHANGED <<aPc, emitted, ePc, subIter, subsLock>>

\* send_msg cannot send and has to queue: it keeps the driver guard and goes on
\* to lock msg_queue
SendMsgToQueue(p) ==
    IF p \in Callers THEN
        /\ aPc' = [aPc EXCEPT ![p] = "queue"]
        /\ UNCHANGED <<ePc, supPc>>
    ELSE IF p = EVT THEN
        /\ ePc' = "queue"
        /\ UNCHANGED <<aPc, supPc>>
    ELSE
        /\ supPc' = IF SupInSubs THEN "open_sub_queue" ELSE "flush_queue"
        /\ UNCHANGED <<aPc, ePc>>

\* send_msg up to its return or to the push: lock driver; with a driver in the
\* slot, driver.send(msg) hands the message to the outbound channel, which takes
\* it or not; return after a send that succeeded, otherwise go on to queue, or
\* drop an ephemeral message
SendMsgTry(p) ==
    /\ AtSendMsg(p)
    /\ driverLock = NoOwner
    /\ IF driver = "Some" /\ DriverSendOk(driverTask)
       THEN /\ lane' = Append(lane, LaneEntry(p))
            /\ sentCount' = CountSent(SendMsgArg(p))
       ELSE UNCHANGED <<lane, sentCount>>
    /\ IF SendImmediately(driver, driverTask) THEN
          /\ SendMsgReturn(p)
          /\ UNCHANGED driverLock
       ELSE IF ShouldQueue(SendMsgEphemeral(p)) THEN
          /\ driverLock' = p
          /\ SendMsgToQueue(p)
          /\ UNCHANGED <<emitted, subIter, draining, subsLock, queueLock>>
       ELSE
          /\ SendMsgReturn(p)
          /\ UNCHANGED driverLock
    /\ UNCHANGED <<connVars, cur, did_open, attempts, conn_id, retry_attempt, completion, driverTask, inbound,
                   initSent, inboundCount, shutdown, clientVars, aId, aRes, eName, eCalls, dPc,
                   waiter, allocAt>>

\* send_msg, the push: msg_queue.lock().await.push(msg), then both guards drop
SendMsgQueue(p) ==
    /\ AtSendMsgQueue(p)
    /\ driverLock = p
    /\ queueLock = NoOwner
    /\ msg_queue' = Append(msg_queue, SendMsgArg(p))
    /\ driverLock' = NoOwner
    /\ SendMsgReturn(p)
    /\ UNCHANGED <<driver, rpc_counter, in_flight_rpcs, event_subscriptions, connection_id,
                   dc_watch, disconnection_rx>>
    /\ UNCHANGED <<cur, did_open, attempts, conn_id, retry_attempt, completion, drvVars, shutdown, clientVars, aId, aRes,
                   eName, eCalls, dPc, waiter, sentCount, allocAt>>

(* ------------------------------ action() ------------------------------ *)

\* action: let id = self.rpc_counter.fetch_add(1, SeqCst)
ActionAlloc(c) ==
    /\ aPc[c] = "idle"
    /\ rpc_counter < MaxRpc
    /\ aId' = [aId EXCEPT ![c] = rpc_counter]
    /\ rpc_counter' = FetchAdd(rpc_counter)
    /\ aRes' = [aRes EXCEPT ![c] = Unused]
    /\ aPc' = [aPc EXCEPT ![c] = "insert"]
    /\ allocAt' = [allocAt EXCEPT ![rpc_counter] = Len(emitted)]
    /\ UNCHANGED <<driver, msg_queue, in_flight_rpcs, event_subscriptions, connection_id,
                   dc_watch, disconnection_rx, lockVars, supVars, drvVars, shutdown, clientVars,
                   ePc, eName, eCalls, dPc, waiter, emitted, sentCount>>

\* action: self.in_flight_rpcs.lock().await.insert(id, tx)
ActionInsert(c) ==
    /\ aPc[c] = "insert"
    /\ in_flight_rpcs' = in_flight_rpcs \cup {aId[c]}
    /\ waiter' = [waiter EXCEPT ![aId[c]] = Pending]
    /\ aPc' = [aPc EXCEPT ![c] = "send"]
    /\ UNCHANGED <<driver, msg_queue, rpc_counter, event_subscriptions, connection_id,
                   dc_watch, disconnection_rx, lockVars, supVars, drvVars, shutdown, clientVars,
                   aId, aRes, ePc, eName, eCalls, dPc, emitted, sentCount, allocAt>>

\* action: rx.await resolves, with the response or because the sender was dropped
ActionReturn(c) ==
    /\ aPc[c] = "wait"
    /\ waiter[aId[c]].st \in {"ok", "err", "closed"}
    /\ aRes' = [aRes EXCEPT ![c] = waiter[aId[c]]]
    /\ aPc' = [aPc EXCEPT ![c] = "idle"]
    /\ UNCHANGED <<connVars, lockVars, supVars, drvVars, shutdown, clientVars, aId, ePc, eName,
                   eCalls, dPc, histVars>>

\* action, cancelled at rx.await: the future is dropped and with it the
\* receiver; nothing else runs (the entry of in_flight_rpcs stays)
ActionCancel(c) ==
    /\ aPc[c] = "wait"
    /\ aRes' = [aRes EXCEPT ![c] = Cancelled]
    /\ aPc' = [aPc EXCEPT ![c] = "idle"]
    /\ UNCHANGED <<connVars, lockVars, supVars, drvVars, shutdown, clientVars, aId, ePc, eName,
                   eCalls, dPc, histVars>>

(* ------------------------------ on_event() ---------------------------- *)

\* add_event_subscription up to its send_subscription: lock event_subscriptions,
\* push the callback; the guard is held until the function returns
OnEventAdd(n) ==
    /\ ePc = "idle"
    /\ eCalls < MaxOnEvent
    /\ subsLock = NoOwner
    /\ eCalls' = eCalls + 1
    /\ event_subscriptions' = [event_subscriptions EXCEPT ![n] = @ + 1]
    /\ IF event_subscriptions[n] = 0
       THEN ePc' = "send" /\ eName' = n /\ subsLock' = EVT
       ELSE UNCHANGED <<ePc, eName, subsLock>>
    /\ UNCHANGED <<driver, msg_queue, rpc_counter, in_flight_rpcs, connection_id,
                   dc_watch, disconnection_rx, driverLock, queueLock, supVars, drvVars,
                   shutdown, clientVars, aPc, aId, aRes, dPc, histVars>>

(* ------------------------------ disconnect() -------------------------- *)

\* disconnect: if self.is_disconnecting() { return }
DisconnectCheck(d) ==
    /\ dPc[d] = "idle"
    /\ dPc' = [dPc EXCEPT ![d] = IF dc_watch THEN "returned" ELSE "set"]
    /\ UNCHANGED <<connVars, lockVars, supVars, drvVars, shutdown, clientVars, aPc, aId, aRes,
                   ePc, eName, eCalls, histVars>>

\* disconnect: self.dc_watch.0.send(true)
DisconnectSet(d) ==
    /\ dPc[d] = "set"
    /\ dc_watch' = TRUE
    /\ dPc' = [dPc EXCEPT ![d] = "abort"]
    /\ UNCHANGED <<driver, msg_queue, rpc_counter, in_flight_rpcs, event_subscriptions,
                   connection_id, disconnection_rx, lockVars, supVars, drvVars, shutdown, clientVars,
                   aPc, aId, aRes, ePc, eName, eCalls, histVars>>

\* DriverHandle::disconnect: abort the driver task (nothing to a finished task)
AbortTask(task) == IF task = "running" THEN "UserAborted" ELSE task

\* disconnect: if let Some(d) = self.driver.lock().await.deref() { d.disconnect() }
DisconnectAbort(d) ==
    /\ dPc[d] = "abort"
    /\ driverLock = NoOwner
    /\ driverTask' = IF driver = "Some" THEN AbortTask(driverTask) ELSE driverTask
    /\ dPc' = [dPc EXCEPT ![d] = "clear_rpcs"]
    /\ UNCHANGED <<connVars, lockVars, supVars, lane, inbound, initSent, inboundCount,
                   shutdown, clientVars, aPc, aId, aRes, ePc, eName, eCalls, histVars>>

\* disconnect: self.in_flight_rpcs.lock().await.clear(): every sender is dropped
DisconnectClearRpcs(d) ==
    /\ dPc[d] = "clear_rpcs"
    /\ in_flight_rpcs' = {}
    /\ waiter' = [i \in RpcIds |-> IF i \in in_flight_rpcs THEN Closed ELSE waiter[i]]
    /\ dPc' = [dPc EXCEPT ![d] = "clear_subs"]
    /\ UNCHANGED <<driver, msg_queue, rpc_counter, event_subscriptions, connection_id,
                   dc_watch, disconnection_rx, lockVars, supVars, drvVars, shutdown, clientVars,
                   aPc, aId, aRes, ePc, eName, eCalls, emitted, sentCount, allocAt>>

\* disconnect: self.event_subscriptions.lock().await.clear()
DisconnectClearSubs(d) ==
    /\ dPc[d] = "clear_subs"
    /\ subsLock = NoOwner
    /\ event_subscriptions' = [n \in EventNames |-> 0]
    /\ dPc' = [dPc EXCEPT ![d] = "take"]
    /\ UNCHANGED <<driver, msg_queue, rpc_counter, in_flight_rpcs, connection_id,
                   dc_watch, disconnection_rx, lockVars, supVars, drvVars, shutdown, clientVars,
                   aPc, aId, aRes, ePc, eName, eCalls, histVars>>

\* disconnect: let Some(rx) = self.disconnection_rx.lock().await.take() else { return }
DisconnectTake(d) ==
    /\ dPc[d] = "take"
    /\ dPc' = [dPc EXCEPT ![d] = IF disconnection_rx = "Some" THEN "await"
                                  ELSE IF disconnection_rx = "Some2" THEN "await2"
                                  ELSE "returned"]
    /\ disconnection_rx' = "None"
    /\ UNCHANGED <<driver, msg_queue, rpc_counter, in_flight_rpcs, event_subscriptions,
                   connection_id, dc_watch, lockVars, supVars, drvVars, shutdown, clientVars,
                   aPc, aId, aRes, ePc, eName, eCalls, histVars>>

\* disconnect: rx.await.ok()
DisconnectAwait(d) ==
    /\ dPc[d] = "await"
    /\ completion = "sent"
    /\ dPc' = [dPc EXCEPT ![d] = "returned"]
    /\ UNCHANGED <<connVars, lockVars, supVars, drvVars, shutdown, clientVars, aPc, aId, aRes,
                   ePc, eName, eCalls, histVars>>

(* --------------------------- the supervisor --------------------------- *)

\* start_connection, the head of the spawned task: return if disconnection_rx
\* holds a receiver, which drops this task's oneshot; store the completion
\* receiver in disconnection_rx otherwise
SupRegister ==
    /\ supPc = "spawned"
    /\ IF disconnection_rx # "None"
       THEN supPc' = "done" /\ UNCHANGED disconnection_rx
       ELSE supPc' = "keepalive" /\ disconnection_rx' = "Some"
    /\ UNCHANGED <<driver, msg_queue, rpc_counter, in_flight_rpcs, event_subscriptions,
                   connection_id, dc_watch, lockVars, cur, did_open, draining, subIter,
                   attempts, conn_id, retry_attempt, completion, drvVars, shutdown, clientVars, callerVars, histVars>>

\* start_connection called once more on the same connection: tokio::spawn
StartAgain ==
    /\ sup2Pc = "none"
    /\ sup2Pc' = "spawned"
    /\ UNCHANGED <<connVars, lockVars, supVars, drvVars, shutdown, transport_kind,
                   handleVars, managerVars, taskVars, callerVars, histVars>>

\* start_connection, the head of the second task: return if disconnection_rx
\* holds a receiver, store this task's receiver ("Some2") and enter 'keepalive
\* otherwise.  The second task is followed up to the head of its loop; a
\* disconnect() that takes its receiver waits for it ("await2").
Sup2Register ==
    /\ sup2Pc = "spawned"
    /\ IF disconnection_rx # "None"
       THEN sup2Pc' = "returned" /\ UNCHANGED disconnection_rx
       ELSE sup2Pc' = "keepalive" /\ disconnection_rx' = "Some2"
    /\ UNCHANGED <<driver, msg_queue, rpc_counter, in_flight_rpcs, event_subscriptions,
                   connection_id, dc_watch, lockVars, supVars, drvVars, shutdown,
                   transport_kind, handleVars, managerVars, taskVars, callerVars, histVars>>

\* start_connection: conn.try_connect() is called; try_connect reads the
\* resumption credentials and calls connect_driver
SupTryConnect ==
    /\ supPc = "keepalive"
    /\ attempts < MaxAttempts
    /\ attempts' = attempts + 1
    /\ retry_attempt' = retry_attempt + 1
    /\ conn_id' = ResumeCredentials(connection_id)
    /\ did_open' = FALSE
    /\ supPc' = "connecting"
    /\ UNCHANGED <<connVars, lockVars, cur, draining, subIter, completion, drvVars,
                   shutdown, clientVars, callerVars, histVars>>

\* drivers/sse.rs, connect: Err at once, no task, no channel
SseConnectsToo == {"Ok", "Err"}
SseConnect == {"Err"}

\* drivers/ws.rs, connect: Err when the actor cannot be resolved or the
\* WebSocket cannot be opened, the driver's handle, receiver and task otherwise
WsConnect == {"Ok", "Err"}

\* connect_driver: the connect of the transport the connection was made with
ConnectDriver(kind) == IF kind = "Sse" THEN SseConnect ELSE WsConnect

\* try_connect: connect_driver returned Err
SupConnectFail ==
    /\ supPc = "connecting"
    /\ "Err" \in ConnectDriver(transport_kind)
    /\ supPc' = "attempt_done"
    /\ UNCHANGED <<connVars, lockVars, cur, did_open, draining, subIter, attempts, conn_id, retry_attempt,
                   completion, drvVars, shutdown, clientVars, callerVars, histVars>>

\* try_connect: connect_driver returned the handle, the receiver and the task
\* ws::connect spawned
SupConnectOk ==
    /\ supPc = "connecting"
    /\ "Ok" \in ConnectDriver(transport_kind)
    /\ driverTask' = "running"
    /\ lane' = <<>>
    /\ inbound' = <<>>
    /\ initSent' = FALSE
    /\ supPc' = "store"
    /\ UNCHANGED <<connVars, lockVars, cur, did_open, draining, subIter, attempts, conn_id, retry_attempt,
                   completion, inboundCount, shutdown, clientVars, callerVars, histVars>>

\* try_connect: *self.driver.lock().await = Some(driver)
SupStoreDriver ==
    /\ supPc = "store"
    /\ driverLock = NoOwner
    /\ driver' = "Some"
    /\ supPc' = "loop"
    /\ UNCHANGED <<msg_queue, rpc_counter, in_flight_rpcs, event_subscriptions,
                   connection_id, dc_watch, disconnection_rx, lockVars, cur, did_open,
                   draining, subIter, attempts, conn_id, retry_attempt, completion, drvVars, shutdown, clientVars,
                   callerVars, histVars>>

\* recver.recv() on the inbound mpsc channel: the oldest message
RecvNewest(q) == q[Len(q)]
Recv(q) == Head(q)

\* try_connect, select!: recver.recv() yields a message
SupRecv ==
    /\ supPc = "loop"
    /\ inbound # <<>>
    /\ cur' = Recv(inbound)
    /\ inbound' = Tail(inbound)
    /\ did_open' = (did_open \/ Recv(inbound).tag = "Init")
    /\ supPc' = "on_message"
    /\ UNCHANGED <<connVars, lockVars, draining, subIter, attempts, conn_id, retry_attempt, completion,
                   driverTask, lane, initSent, inboundCount, shutdown, clientVars, callerVars,
                   histVars>>

\* try_connect, select!: the driver task has ended
SupTaskEnd ==
    /\ supPc = "loop"
    /\ driverTask # "running"
    /\ supPc' = "destroy"
    /\ UNCHANGED <<connVars, lockVars, cur, did_open, draining, subIter, attempts, conn_id, retry_attempt,
                   completion, drvVars, shutdown, clientVars, callerVars, histVars>>

\* on_message, ActionResponse and Error with an action id: remove the waiter
\* and fulfil it
Fulfil(resp) ==
    /\ in_flight_rpcs' = in_flight_rpcs \ RemoveWaiter(in_flight_rpcs, cur.id)
    /\ waiter' = [i \in RpcIds |->
                    IF i \in RemoveWaiter(in_flight_rpcs, cur.id) THEN resp ELSE waiter[i]]

SupOnActionResponse ==
    /\ supPc = "on_message"
    /\ cur.tag = "ActionResponse"
    /\ Fulfil(RespOk(cur.id))
    /\ supPc' = "loop"
    /\ UNCHANGED <<driver, msg_queue, rpc_counter, event_subscriptions, connection_id,
                   dc_watch, disconnection_rx, lockVars, cur, did_open, draining, subIter,
                   attempts, conn_id, retry_attempt, completion, drvVars, shutdown, clientVars, callerVars, emitted,
                   sentCount, allocAt>>

\* on_message, Error: with action_id Some(id) the waiter gets the error, with
\* None the error is logged
SupOnError ==
    /\ supPc = "on_message"
    /\ cur.tag = "Error"
    /\ IF cur.id # NoId
       THEN Fulfil(RespErr(cur.id))
       ELSE /\ in_flight_rpcs' = ConnectionErrorLogged(in_flight_rpcs)
            /\ UNCHANGED waiter
    /\ supPc' = "loop"
    /\ UNCHANGED <<driver, msg_queue, rpc_counter, event_subscriptions, connection_id,
                   dc_watch, disconnection_rx, lockVars, cur, did_open, draining, subIter,
                   attempts, conn_id, retry_attempt, completion, drvVars, shutdown, clientVars, callerVars, emitted,
                   sentCount, allocAt>>

\* on_message, Event: lock event_subscriptions and call the callbacks
SupOnEvent ==
    /\ supPc = "on_message"
    /\ cur.tag = "Event"
    /\ subsLock = NoOwner
    /\ supPc' = "loop"
    /\ UNCHANGED <<connVars, lockVars, cur, did_open, draining, subIter, attempts, conn_id, retry_attempt,
                   completion, drvVars, shutdown, clientVars, callerVars, histVars>>

\* on_open: store the connection info of the Init
SupOnOpen ==
    /\ supPc = "on_message"
    /\ cur.tag = "Init"
    /\ connection_id' = cur.id
    /\ supPc' = "open_subs"
    /\ UNCHANGED <<driver, msg_queue, rpc_counter, in_flight_rpcs, event_subscriptions,
                   dc_watch, disconnection_rx, lockVars, cur, did_open, draining, subIter,
                   attempts, conn_id, retry_attempt, completion, drvVars, shutdown, clientVars, callerVars, histVars>>

\* on_open: for (event_name, _) in self.event_subscriptions.lock().await.iter():
\* the guard lives as long as the loop, the HashMap's order is arbitrary
SupOpenSubs ==
    /\ supPc = "open_subs"
    /\ subsLock = NoOwner
    /\ \E order \in Orderings(ActiveNames(event_subscriptions)) :
          /\ subIter' = order
          /\ IF order = <<>>
             THEN supPc' = "flush_lock" /\ UNCHANGED subsLock
             ELSE supPc' = "open_sub_send" /\ subsLock' = SUP
    /\ UNCHANGED <<connVars, driverLock, queueLock, cur, did_open, draining, attempts, conn_id, retry_attempt,
                   completion, drvVars, shutdown, clientVars, callerVars, histVars>>

\* on_open: for msg in self.msg_queue.lock().await.drain(..): the guard lives as
\* long as the loop; drain empties the Vec and yields its former contents
SupFlushLock ==
    /\ supPc = "flush_lock"
    /\ queueLock = NoOwner
    /\ draining' = msg_queue
    /\ msg_queue' = <<>>
    /\ IF msg_queue = <<>>
       THEN supPc' = "loop" /\ UNCHANGED queueLock
       ELSE supPc' = "flush_send" /\ queueLock' = SUP
    /\ UNCHANGED <<driver, rpc_counter, in_flight_rpcs, event_subscriptions, connection_id,
                   dc_watch, disconnection_rx, driverLock, subsLock, cur, did_open, subIter,
                   attempts, conn_id, retry_attempt, completion, drvVars, shutdown, clientVars, callerVars, histVars>>

\* try_connect, 'destroy_driver: take the driver out of the slot and disconnect
\* it; the receiver is dropped when try_connect returns
LeaveDriver(slot) == slot
TakeDriver(slot) == "None"

SupDestroy ==
    /\ supPc = "destroy"
    /\ driverLock = NoOwner
    /\ driver' = TakeDriver(driver)
    /\ driverTask' = IF driver = "Some" THEN AbortTask(driverTask) ELSE driverTask
    /\ inbound' = <<>>
    /\ in_flight_rpcs' = TeardownKeepsWaiters(in_flight_rpcs)
    /\ supPc' = "attempt_done"
    /\ UNCHANGED <<msg_queue, rpc_counter, event_subscriptions,
                   connection_id, dc_watch, disconnection_rx, lockVars, cur, did_open,
                   draining, subIter, attempts, conn_id, retry_attempt, completion, lane, initSent, inboundCount,
                   shutdown, clientVars, callerVars, histVars>>

\* start_connection, after try_connect: leave on is_disconnecting(), reconnect
\* at once after an attempt that opened, back off otherwise
AlwaysBackOff(dc, opened) ==
    IF dc THEN "exit" ELSE "backoff"
AfterAttempt(dc, opened) ==
    IF dc THEN "exit" ELSE IF opened THEN "keepalive" ELSE "backoff"

\* start_connection, the head of 'keepalive: a new Backoff and retry_attempt = 0
NewBackoff(next, retries) == IF next = "keepalive" THEN 0 ELSE retries

SupAttemptDone ==
    /\ supPc = "attempt_done"
    /\ supPc' = AfterAttempt(dc_watch, did_open)
    /\ retry_attempt' = NewBackoff(AfterAttempt(dc_watch, did_open), retry_attempt)
    /\ UNCHANGED <<connVars, lockVars, cur, did_open, draining, subIter, attempts, conn_id,
                   completion, drvVars, shutdown, clientVars, callerVars, histVars>>

\* start_connection, select!: backoff.tick() fired
SupBackoffTick ==
    /\ supPc = "backoff"
    /\ supPc' = "keepalive"
    /\ UNCHANGED <<connVars, lockVars, cur, did_open, draining, subIter, attempts, conn_id, retry_attempt,
                   completion, drvVars, shutdown, clientVars, callerVars, histVars>>

\* start_connection, select!: dc_rx.wait_for(|x| *x == true)
SupBackoffDc ==
    /\ supPc = "backoff"
    /\ dc_watch
    /\ supPc' = "exit"
    /\ UNCHANGED <<connVars, lockVars, cur, did_open, draining, subIter, attempts, conn_id, retry_attempt,
                   completion, drvVars, shutdown, clientVars, callerVars, histVars>>

\* start_connection, select!: shutdown_rx.recv()
SupBackoffShutdown ==
    /\ supPc = "backoff"
    /\ shutdown = "sent"
    /\ shutdown' = "received"
    /\ supPc' = "exit"
    /\ UNCHANGED <<clientVars, connVars, lockVars, cur, did_open, draining, subIter, attempts, conn_id, retry_attempt,
                   completion, drvVars, callerVars, histVars>>

\* start_connection: tx.send(()).ok()
SupExitSend ==
    /\ supPc = "exit"
    /\ completion' = "sent"
    /\ supPc' = "exit_take"
    /\ UNCHANGED <<connVars, lockVars, cur, did_open, draining, subIter, attempts, conn_id, retry_attempt,
                   drvVars, shutdown, clientVars, callerVars, histVars>>

\* start_connection: conn.disconnection_rx.lock().await.take()
SupExitTake ==
    /\ supPc = "exit_take"
    /\ disconnection_rx' = "None"
    /\ supPc' = "done"
    /\ UNCHANGED <<driver, msg_queue, rpc_counter, in_flight_rpcs, event_subscriptions,
                   connection_id, dc_watch, lockVars, cur, did_open, draining, subIter,
                   attempts, conn_id, retry_attempt, completion, drvVars, shutdown, clientVars, callerVars, histVars>>

(* ---------------------- the driver task and the server ---------------- *)

\* what the server may send on this connection: Init once, a response or an
\* error for a request it got, a connection-level error, an event
InitFrames == IF initSent THEN {} ELSE {InitMsg(attempts)}
ResponseFrames == {ActionResponse(i) : i \in RequestIds(lane)}
ErrorFrames == {ErrorMsg(i) : i \in RequestIds(lane)} \cup {ErrorMsg(NoId)}
EventFrames == {EventMsg(n) : n \in EventNames}

\* ws::start, ws_stream.next(): a Text or Binary frame is deserialized and sent
\* into the inbound channel
ServerSend(m) ==
    /\ driverTask = "running"
    /\ inboundCount < MaxInbound
    /\ inbound' = Append(inbound, m)
    /\ initSent' = (initSent \/ m.tag = "Init")
    /\ inboundCount' = inboundCount + 1
    /\ UNCHANGED <<connVars, lockVars, supVars, driverTask, lane, shutdown, clientVars, callerVars,
                   histVars>>

\* ws::start, ws_stream.next(): a Close frame or the end of the stream
ServerClose ==
    /\ driverTask = "running"
    /\ driverTask' = "ServerDisconnect"
    /\ UNCHANGED <<connVars, lockVars, supVars, lane, inbound, initSent, inboundCount,
                   shutdown, clientVars, callerVars, histVars>>

\* impl Drop for Client: self.shutdown_tx.send(())
ClientDrop ==
    /\ shutdown = "none"
    /\ shutdown' = "sent"
    /\ UNCHANGED <<clientVars, connVars, lockVars, supVars, drvVars, callerVars, histVars>>

(* ------------------- drivers/ws.rs, the driver task ------------------- *)

\* json_msg_serialize, cbor_msg_serialize: a frame holding the message, or Err
Serialize(m) == IF m.ser THEN Ok(Frame("Text", m.msg)) ELSE Err("serialize")

\* json_msg_deserialize, cbor_msg_deserialize: the ToClient in the frame's body,
\* or Err when the body is not one
Deserialize(f) ==
    IF f.body \in {InitMsg(0), ActionResponse(0)} THEN Ok(f.body) ELSE Err("parse")

\* ws::start, the ws_stream.next() arm: the reason it returns, "running" when
\* the loop goes on; rx tells whether the inbound receiver is still held
StopOnParseError(f, rx) ==
    CASE f.kind \in {"None", "Close"} -> "ServerDisconnect"
      [] f.kind = "Err" -> "ServerError"
      [] f.kind \in {"Text", "Binary"} /\ ~Deserialize(f).ok -> "ServerError"
      [] f.kind \in {"Text", "Binary"} /\ ~rx -> "UserAborted"
      [] OTHER -> "running"
StopReason(f, rx) ==
    CASE f.kind \in {"None", "Close"} -> "ServerDisconnect"
      [] f.kind = "Err" -> "ServerError"
      [] f.kind \in {"Text", "Binary"} /\ Deserialize(f).ok /\ ~rx -> "UserAborted"
      [] OTHER -> "running"

\* ws::connect: the two channels are made and start is spawned
TaskSpawn ==
    /\ driverTask = "none"
    /\ driverTask' = "running"
    /\ UNCHANGED <<connVars, lockVars, supVars, lane, inbound, initSent, inboundCount,
                   shutdown, clientVars, callerVars, histVars>>

\* DriverHandle::send by the holder of the handle: a message enters the
\* outbound channel; ser tells whether the serializer accepts it
HandleSend ==
    /\ driverTask = "running"
    /\ ends.out_tx
    /\ taken + Len(out_rx) < MaxRpc
    /\ \E ser \in BOOLEAN :
          out_rx' = Append(out_rx, [msg |-> ActionRequest(taken + Len(out_rx)), ser |-> ser])
    /\ UNCHANGED <<connVars, lockVars, supVars, drvVars, shutdown, transport_kind, sup2Pc,
                   handleVars, managerVars, taken, ws_sink, ends, ws_frame, callerVars,
                   histVars>>

\* the holder of the handle or of the inbound receiver drops it
DropEnd ==
    /\ driverTask # "none"
    /\ \E e \in {"out_tx", "in_rx"} : ends[e] /\ ends' = [ends EXCEPT ![e] = FALSE]
    /\ UNCHANGED <<connVars, lockVars, supVars, drvVars, shutdown, transport_kind, sup2Pc,
                   handleVars, managerVars, out_rx, taken, ws_sink, ws_frame, callerVars,
                   histVars>>

\* ws::start, the out_rx.recv() arm: None once the channel is empty and its
\* sender dropped; a message is serialized and given to the socket, and both a
\* serializer's Err and a socket's Err lead to continue
TaskOutbound ==
    /\ driverTask = "running"
    /\ IF out_rx = <<>>
       THEN /\ ~ends.out_tx
            /\ driverTask' = "UserAborted"
            /\ UNCHANGED <<out_rx, taken, ws_sink>>
       ELSE /\ out_rx' = Tail(out_rx)
            /\ taken' = taken + 1
            /\ \E sunk \in BOOLEAN :
                  ws_sink' = IF Serialize(Head(out_rx)).ok /\ sunk
                             THEN Append(ws_sink, Serialize(Head(out_rx)).val)
                             ELSE ws_sink
            /\ UNCHANGED driverTask
    /\ UNCHANGED <<connVars, lockVars, supVars, lane, inbound, initSent, inboundCount,
                   shutdown, transport_kind, sup2Pc, handleVars, managerVars, ends,
                   ws_frame, callerVars, histVars>>

\* ws::start, the ws_stream.next() arm on the item f: a frame that parses goes
\* to in_tx.send, one that does not is skipped, other kinds are ignored
TaskInbound(f) ==
    /\ driverTask = "running"
    /\ StopReason(f, ends.in_rx) = "running" => inboundCount < MaxInbound
    /\ ws_frame' = f
    /\ inboundCount' = inboundCount + 1
    /\ driverTask' = StopReason(f, ends.in_rx)
    /\ IF f.kind \in {"Text", "Binary"} /\ Deserialize(f).ok /\ ends.in_rx
       THEN /\ inbound' = Append(inbound, Deserialize(f).val)
            /\ initSent' = (initSent \/ Deserialize(f).val.tag = "Init")
       ELSE UNCHANGED <<inbound, initSent>>
    /\ UNCHANGED <<connVars, lockVars, supVars, lane, shutdown, transport_kind, sup2Pc,
                   handleVars, managerVars, out_rx, taken, ws_sink, ends, callerVars,
                   histVars>>

\* the task with the holder of its channel ends and a socket that yields any item
Task ==
    \/ TaskSpawn \/ HandleSend \/ DropEnd \/ TaskOutbound
    \/ \E f \in {Frame("Text", InitMsg(0)), Frame("Binary", ActionResponse(0)),
                 Frame("Text", Unparsable), Frame("Ping", NoMsg), Frame("Close", NoMsg),
                 Frame("Err", NoMsg), Frame("None", NoMsg)} : TaskInbound(f)

(* ------------------------ the stateless handle ----------------------- *)

\* the connection
connAll == <<connVars, lockVars, supVars, drvVars, shutdown, transport_kind, sup2Pc,
             taskVars, callerVars, histVars>>

\* resolve: the query written back after resolve_actor_id returned actor_id
KeepQuery(q, a) == q
Rewrite(q, a) == GetForId(q.name, a)

\* resolve on a Create query
ResolveCreate(r) ==
    /\ rPc[r] = "idle"
    /\ resolves < MaxResolve
    /\ query.kind = "Create"
    /\ resolves' = resolves + 1
    /\ rRes' = [rRes EXCEPT ![r] = Err("actor query cannot be create")]
    /\ UNCHANGED <<connAll, managerVars, query, rPc, rQuery, plane_calls, query0, firstOk, overlapped>>

\* resolve on a GetForId query
ResolveGetForId(r) ==
    /\ rPc[r] = "idle"
    /\ resolves < MaxResolve
    /\ query.kind = "GetForId"
    /\ resolves' = resolves + 1
    /\ rRes' = [rRes EXCEPT ![r] = Ok(query.actor_id)]
    /\ UNCHANGED <<connAll, managerVars, query, rPc, rQuery, plane_calls, query0, firstOk, overlapped>>

\* resolve on a GetForKey or GetOrCreateForKey query: clone the query and call
\* remote_manager.resolve_actor_id(&query)
ResolveAsk(r) ==
    /\ rPc[r] = "idle"
    /\ resolves < MaxResolve
    /\ query.kind \in {"GetForKey", "GetOrCreateForKey"}
    /\ resolves' = resolves + 1
    /\ plane_calls' = plane_calls + 1
    /\ rQuery' = [rQuery EXCEPT ![r] = query]
    /\ rRes' = [rRes EXCEPT ![r] = NoResult]
    /\ rPc' = [rPc EXCEPT ![r] = "awaiting"]
    /\ overlapped' = (overlapped \/ \E o \in Resolvers : rPc[o] = "awaiting")
    /\ UNCHANGED <<connAll, managerVars, query, query0, firstOk>>

\* resolve: resolve_actor_id returned Ok(a); the cell is rewritten
ResolveOk(r, a) ==
    /\ rPc[r] = "awaiting"
    /\ query' = Rewrite(rQuery[r], a)
    /\ rRes' = [rRes EXCEPT ![r] = Ok(a)]
    /\ rPc' = [rPc EXCEPT ![r] = "idle"]
    /\ firstOk' = IF firstOk = NoActor THEN a ELSE firstOk
    /\ UNCHANGED <<connAll, managerVars, rQuery, resolves, plane_calls, query0, overlapped>>

\* resolve: resolve_actor_id returned Err ("actor not found", a non-2xx status,
\* a transport error), which ? returns
ResolveErr(r) ==
    /\ rPc[r] = "awaiting"
    /\ rRes' = [rRes EXCEPT ![r] = Err("actor not found")]
    /\ rPc' = [rPc EXCEPT ![r] = "idle"]
    /\ UNCHANGED <<connAll, managerVars, query, rQuery, resolves, plane_calls, query0, firstOk, overlapped>>

Resolve ==
    \E r \in Resolvers :
        \/ ResolveCreate(r) \/ ResolveGetForId(r) \/ ResolveAsk(r) \/ ResolveErr(r)
        \/ \E a \in ActorIds : ResolveOk(r, a)

(* ------------------------- the remote manager ------------------------ *)

\* get_for_id, after the response was parsed: the first actor of the list
\* decides
GetForIdOf(list, n) ==
    IF list # <<>>
    THEN IF Head(list).name = n THEN Ok(Head(list).actor_id) ELSE Ok(None)
    ELSE Ok(None)

\* get_for_id returns
GetForIdCall ==
    /\ found = NoResult
    /\ found' = IF http_ok THEN GetForIdOf(data, req_name) ELSE Err("failed to get actor")
    /\ UNCHANGED <<connAll, handleVars, http_ok, data, req_name, ws_args, ws_out>>

\* one entry of the Sec-WebSocket-Protocol list: format!("{}{}", prefix, value),
\* the value as it is or as urlencoding::encode(serde_json::to_string(value))
Protocol(p, v) == [prefix |-> p, value |-> v, enc |-> "plain"]
UrlEncodedJson(p, v) == [prefix |-> p, value |-> v, enc |-> "urlencoded json"]

\* open_websocket: if let Some(x) = ... { protocols.push(...) }
Push(v, entry) == IF v = None THEN <<>> ELSE <<entry>>

\* open_websocket: the pushes after the vec! of the four fixed entries
PushesIdFirst(a) ==
    Push(a.conn_id, Protocol(WS_PROTOCOL.CONN_ID, a.conn_id))
        \o Push(a.token, Protocol(WS_PROTOCOL.TOKEN, a.token))
        \o Push(a.params, UrlEncodedJson(WS_PROTOCOL.CONN_PARAMS, a.params))
        \o Push(a.conn_token, Protocol(WS_PROTOCOL.CONN_TOKEN, a.conn_token))
Pushes(a) ==
    Push(a.token, Protocol(WS_PROTOCOL.TOKEN, a.token))
        \o Push(a.params, UrlEncodedJson(WS_PROTOCOL.CONN_PARAMS, a.params))
        \o Push(a.conn_id, Protocol(WS_PROTOCOL.CONN_ID, a.conn_id))
        \o Push(a.conn_token, Protocol(WS_PROTOCOL.CONN_TOKEN, a.conn_token))

\* open_websocket: the protocols vector
Protocols(a) ==
    <<Protocol(WS_PROTOCOL.STANDARD, ""),
      Protocol(WS_PROTOCOL.TARGET, "actor"),
      Protocol(WS_PROTOCOL.ACTOR, a.actor_id),
      Protocol(WS_PROTOCOL.ENCODING, a.encoding)>> \o Pushes(a)

\* open_websocket: the scheme promotion, <<>> for an endpoint that starts with
\* neither https:// nor http://
WsUrl(e) ==
    IF e.scheme = "https://" THEN <<"wss://", e.rest, WS_PROTOCOL.PATH>>
    ELSE IF e.scheme = "http://" THEN <<"ws://", e.rest, WS_PROTOCOL.PATH>>
    ELSE <<>>

\* open_websocket: return Err(anyhow!("invalid endpoint URL"))
OpenWebsocketInvalid ==
    /\ ws_out.err = "-" /\ ws_out.request = NoRequest
    /\ WsUrl(ws_args.endpoint) = <<>>
    /\ ws_out' = [err |-> "invalid endpoint URL", request |-> NoRequest]
    /\ UNCHANGED <<connAll, handleVars, http_ok, data, req_name, found, ws_args>>

\* open_websocket: connect_async(request) with the protocols joined into the
\* Sec-WebSocket-Protocol header; the handshake succeeds or fails
OpenWebsocketConnect(res) ==
    /\ ws_out.err = "-" /\ ws_out.request = NoRequest
    /\ WsUrl(ws_args.endpoint) # <<>>
    /\ ws_out' = [err |-> res,
                  request |-> [url |-> WsUrl(ws_args.endpoint),
                               protocols |-> Protocols(ws_args)]]
    /\ UNCHANGED <<connAll, handleVars, http_ok, data, req_name, found, ws_args>>

OpenWebsocket ==
    \/ OpenWebsocketInvalid
    \/ \E res \in {"none", "handshake failed"} : OpenWebsocketConnect(res)

(* ---------------------------- specification --------------------------- *)

\* the reconnect loop of start_connection and try_connect
SupLoop ==
    \/ SupRegister \/ SupTryConnect \/ SupConnectFail \/ SupConnectOk \/ SupStoreDriver
    \/ SupTaskEnd \/ SupDestroy \/ SupAttemptDone \/ SupBackoffTick

\* the inbound half of try_connect's loop: recv, and on_message with an Init
\* (on_open)
SupOpen == SupRecv \/ SupOnOpen \/ SupOpenSubs \/ SupFlushLock

\* on_message with an ActionResponse, an Error, an Event
SupDispatch == SupOnActionResponse \/ SupOnError \/ SupOnEvent

SupInbound == SupOpen \/ SupDispatch

\* the supervisor leaving its loop after disconnect()
SupStop == SupBackoffDc \/ SupExitSend \/ SupExitTake

\* the supervisor leaving its loop after the shutdown broadcast
SupShutdown == SupBackoffShutdown \/ SupExitSend \/ SupExitTake

SendMsg == \E p \in Procs : SendMsgTry(p) \/ SendMsgQueue(p)

\* the calls of action() by one task
ActionBy(c) == ActionAlloc(c) \/ ActionInsert(c) \/ ActionReturn(c)

Action == \E c \in Callers : ActionBy(c)

OnEvent == \E n \in EventNames : OnEventAdd(n)

\* one call of disconnect()
DisconnectBy(d) ==
    \/ DisconnectCheck(d) \/ DisconnectSet(d) \/ DisconnectAbort(d)
    \/ DisconnectClearRpcs(d) \/ DisconnectClearSubs(d) \/ DisconnectTake(d)
    \/ DisconnectAwait(d)

Disconnect == \E d \in Disconnectors : DisconnectBy(d)

ServerInit == \E m \in InitFrames : ServerSend(m)

ServerReply ==
    \/ \E m \in ResponseFrames : ServerSend(m)
    \/ \E m \in ErrorFrames : ServerSend(m)

Server ==
    \/ ServerInit
    \/ ServerReply
    \/ \E m \in EventFrames : ServerSend(m)
    \/ ServerClose

\* The multiplexer: the supervisor with its driver and the server, and the
\* callers of action() and on_event().
Next == SupLoop \/ SupInbound \/ SendMsg \/ Action \/ OnEvent \/ Server

Spec == Init /\ [][Next]_vars

\* Shutdown: the supervisor and its driver, the callers of action() and of
\* disconnect(); the server sends no frame and may close the connection.
NextDisc == SupLoop \/ SupStop \/ SendMsg \/ Action \/ Disconnect \/ ServerClose

SpecDisc == Init /\ [][NextDisc]_vars

\* Shutdown under fair scheduling: every task that can take a step eventually
\* takes it (tokio polls every woken task), connect_driver returns and the
\* backoff timer fires.  Nothing is assumed of the server: it may stay silent
\* and keep the connection open for ever.
NextLive == SupLoop \/ SupStop \/ Disconnect \/ ServerClose

FairSpec ==
    /\ Init
    /\ [][NextLive]_vars
    /\ WF_vars(SupLoop \/ SupStop)
    /\ \A d \in Disconnectors :
          WF_vars(DisconnectCheck(d) \/ DisconnectSet(d) \/ DisconnectAbort(d)
                  \/ DisconnectClearRpcs(d) \/ DisconnectClearSubs(d)
                  \/ DisconnectTake(d) \/ DisconnectAwait(d))

\* Client drop: the supervisor with its driver, a server that sends the Init of
\* each connection and may close it, and the drop of the Client.
NextShut == SupLoop \/ SupOpen \/ SupShutdown \/ ServerInit \/ ServerClose \/ ClientDrop

SpecShut == Init /\ [][NextShut]_vars

\* Client drop under fair scheduling of the supervisor task; nothing is assumed
\* of the server, nor of when the Client is dropped.
FairShut == SpecShut /\ WF_vars(SupLoop \/ SupOpen \/ SupShutdown)

\* Remote calls: the supervisor with its driver, one task calling action(),
\* whose calls may be cancelled while they wait (so that its next call runs
\* with the former one still in flight), a server that answers and may close
\* the connection, and one call of disconnect().
NextRpc ==
    \/ SupLoop \/ SupStop \/ SupOpen \/ SupOnActionResponse \/ SupOnError
    \/ SendMsg \/ ActionBy(1) \/ ActionCancel(1) \/ DisconnectBy(1)
    \/ ServerInit \/ ServerReply \/ ServerClose

SpecRpc == Init /\ [][NextRpc]_vars

\* Remote calls under fair scheduling: the supervisor task and the task calling
\* action() take every step they can take, and a disconnect() that was called
\* runs to its end.  Nothing is assumed of the server, and nobody has to call
\* disconnect().  The calls of action() are not cancelled.
NextRpcLive ==
    \/ SupLoop \/ SupStop \/ SupOpen \/ SupOnActionResponse \/ SupOnError
    \/ SendMsg \/ ActionBy(1) \/ DisconnectBy(1)
    \/ ServerInit \/ ServerReply \/ ServerClose

FairRpc ==
    /\ Init
    /\ [][NextRpcLive]_vars
    /\ WF_vars(SupLoop \/ SupStop \/ SupOpen \/ SupOnActionResponse \/ SupOnError)
    /\ WF_vars(SendMsg \/ ActionBy(1))
    /\ WF_vars(DisconnectSet(1) \/ DisconnectAbort(1) \/ DisconnectClearRpcs(1)
               \/ DisconnectClearSubs(1) \/ DisconnectTake(1) \/ DisconnectAwait(1))

\* The reconnect loop: the supervisor of a connection made with either
\* transport, a server that sends the Init of each connection and may close it,
\* one call of disconnect() and the drop of the Client.
NextLoop ==
    \/ SupLoop \/ SupOpen \/ SupStop \/ SupBackoffShutdown
    \/ ServerInit \/ ServerClose \/ ClientDrop \/ DisconnectBy(1)

SpecLoop == InitAnyTransport /\ [][NextLoop]_vars

\* start_connection called twice: the supervisor with its driver, the callers of
\* disconnect(), a server that may close the connection, and a second call of
\* start_connection on the same connection.
NextStart == SupLoop \/ SupStop \/ Disconnect \/ ServerClose \/ StartAgain \/ Sup2Register

SpecStart == Init /\ [][NextStart]_vars

\* The stateless handle: resolve() futures of one handle, which may overlap on
\* their request to the control plane, and a control plane that may answer
\* each request with any actor id or with an error.
SpecResolve == InitHandle /\ [][Resolve]_vars

\* get_for_id on any response of the control plane
SpecGetForId == InitGetForId /\ [][GetForIdCall]_vars

\* open_websocket on any endpoint and any arguments
SpecOpenWebsocket == InitOpenWebsocket /\ [][OpenWebsocket]_vars

\* the driver task of a WebSocket connection on any sequence of socket items
SpecTask == Init /\ [][Task]_vars

(* ------------------------------- claims ------------------------------- *)

Count(q, i) == Cardinality({k \in 1..Len(q) : q[k].tag = "ActionRequest" /\ q[k].id = i})
AllocatedIds == {i \in RpcIds : allocAt[i] # NoId}
Done(w) == w.st \in {"ok", "err", "closed"}

\* C1: on_message dispatching ActionResponse{id} removes exactly the waiter keyed
\* by id and fulfils it with that response, leaving every other entry of the
\* in-flight map and every other waiter as it was; a fulfilled waiter never
\* changes again; and an action() call that returns a response returns the one
\* carrying its own id.
C1_DispatchStep ==
    (supPc = "on_message" /\ cur.tag = "ActionResponse" /\ supPc' = "loop") =>
        /\ in_flight_rpcs' = in_flight_rpcs \ {cur.id}
        /\ \A i \in RpcIds :
              waiter'[i] = IF i = cur.id /\ i \in in_flight_rpcs THEN RespOk(i) ELSE waiter[i]
C1_FulfilledOnce == \A i \in RpcIds : Done(waiter[i]) => waiter'[i] = waiter[i]
C1_OwnResponse == \A c \in Callers : aRes[c].st \in {"ok", "err"} => aRes[c].id = aId[c]
C1_ResponseCorrelation == [][C1_DispatchStep /\ C1_FulfilledOnce /\ C1_OwnResponse']_vars

\* C1 witness: two concurrent calls were answered in the reverse order of their
\* ids (the response for id 0 was dispatched last) and both returned.
C1_Witness ==
    /\ cur = ActionResponse(0)
    /\ \A c \in Callers : aRes[c].st = "ok"
    /\ aId[1] # aId[2]
    /\ waiter[1] = RespOk(1) /\ waiter[0] = RespOk(0)

\* C2: the id an action() call allocates is greater than every id allocated
\* before it (so no id is allocated twice).
C2_AllocStep ==
    \A c \in Callers :
        (aPc[c] = "idle" /\ aPc'[c] = "insert") =>
            \A i \in AllocatedIds : aId'[c] > i
C2_IdsIncrease == [][C2_AllocStep]_vars

\* C2 witness: two calls hold different ids at the same time, allocated
\* concurrently, after the supervisor reconnected.
C2_Witness ==
    /\ aPc[1] = "insert" /\ aPc[2] = "insert"
    /\ aId[1] # aId[2]
    /\ attempts = MaxAttempts

\* C3 as claimed: the ids are emitted in strictly increasing order.
C3_EmittedIncreasing ==
    \A k, l \in 1..Len(emitted) : k < l => emitted[k] < emitted[l]

\* C3 amended: no id is emitted twice, and an id that was allocated after
\* another id had been emitted is greater than it; calls that overlap may emit
\* in either order.
C3_EmittedUniqueSequentialIncreasing ==
    \A k, l \in 1..Len(emitted) :
        k < l =>
            /\ emitted[k] # emitted[l]
            /\ allocAt[emitted[l]] >= k => emitted[k] < emitted[l]

\* C3 witness: two calls that did not overlap (the second id was allocated after
\* the first was emitted) have both emitted.
C3_Witness == Len(emitted) = 2 /\ allocAt[emitted[2]] = 1

\* C4: in the lane of a driver, no message that a caller handed over after the
\* Init precedes a message handed over by the flush of the queue.
C4_FlushBeforeLater ==
    \A k, l \in 1..Len(lane) :
        (k < l /\ lane[l].via = "flush") => ~(lane[k].via = "direct" /\ lane[k].afterInit)

C6_QueueHoldsRequestsOnly ==
    /\ \A k \in 1..Len(msg_queue) : msg_queue[k].tag = "ActionRequest"
    /\ \A k \in 1..Len(draining) : draining[k].tag = "ActionRequest"

\* C6 witness: on_event sent its subscription request while no driver had ever
\* been attached, so it was dropped, while a request of action() was queued.
C6_Witness ==
    /\ eCalls = 1 /\ ePc = "idle" /\ event_subscriptions["joined"] = 1
    /\ attempts = 0
    /\ Len(msg_queue) = 1

\* C7: dc_watch never goes back to false, and no try_connect begins while it
\* is true.
C7_NoAttemptAfterDisconnect ==
    [][/\ dc_watch => dc_watch'
       /\ (supPc = "keepalive" /\ supPc' = "connecting") => ~dc_watch]_vars

\* C8: at the step in which a disconnect() call returns, the in-flight map and
\* the subscription map are empty.
C8_MapsEmptyAtReturn ==
    [][\A d \in Disconnectors :
          (dPc[d] # "returned" /\ dPc'[d] = "returned") =>
              (in_flight_rpcs' = {} /\ ActiveNames(event_subscriptions') = {})]_vars

\* C9: once a disconnect() call has returned, the supervisor has published its
\* completion signal, is out of its loop and holds no driver.
C9_ReturnedAfterCompletion ==
    \A d \in Disconnectors :
        dPc[d] = "returned" =>
            /\ completion = "sent"
            /\ supPc \in {"exit_take", "done"}
            /\ driver = "None"

\* C10: under fair scheduling every disconnect() call returns and the
\* supervisor task exits (unless the model's bound on attempts stops it).
AttemptsExhausted == supPc = "keepalive" /\ attempts = MaxAttempts
C10_DisconnectTerminates ==
    /\ \A d \in Disconnectors :
          (dPc[d] # "idle") ~> (dPc[d] = "returned" \/ AttemptsExhausted)
    /\ dc_watch ~> (supPc = "done" \/ AttemptsExhausted)

\* C11: under fair scheduling, once the Client has been dropped the supervisor
\* leaves its keepalive loop, signals completion and ends (unless the model's
\* bound on attempts stops it).
C11_DropTerminates ==
    (shutdown # "none") ~> ((supPc = "done" /\ completion = "sent") \/ AttemptsExhausted)

\* C12: once the supervisor has stopped because of the shutdown broadcast, the
\* connection is in the state disconnect() leaves it in: dc_watch is true, no
\* driver is in the slot, and the in-flight map and the subscription map are
\* empty.
C12_ShutdownAsDisconnect ==
    (supPc = "done" /\ shutdown = "received") =>
        /\ dc_watch
        /\ driver = "None"
        /\ in_flight_rpcs = {}
        /\ ActiveNames(event_subscriptions) = {}

\* C13: every connect attempt passes the credentials of the most recent Init
\* the supervisor has received (none before the first Init), and the stored
\* credentials change only when on_open overwrites them with those of the Init
\* it handles: no teardown and no failed attempt clears them.  (Stated for a
\* server that sends Init frames only, so that cur is the most recent Init.)
C13_ResumeStep ==
    (supPc = "keepalive" /\ supPc' = "connecting") => conn_id' = cur.id
C13_StoredStep ==
    connection_id' # connection_id =>
        (supPc = "on_message" /\ cur.tag = "Init" /\ connection_id' = cur.id)
C13_ResumeCredentials == [][C13_ResumeStep /\ C13_StoredStep]_vars

\* C13 witness: the second attempt was started with the credentials of the
\* first attempt's Init, after that attempt's driver had been torn down, and
\* its own Init, with other values, has overwritten the stored ones.
C13_Witness == attempts = 2 /\ conn_id = 1 /\ connection_id = 2 /\ supPc = "attempt_done"

\* C14: under fair scheduling, a call of action() that waits for the response to
\* a request a driver has accepted, after that driver has been torn down, fails
\* with "Socket closed during rpc" (unless the model's bound on attempts stops
\* the supervisor).
C14_TeardownFailsRpc ==
    (/\ aPc[1] = "wait"
     /\ waiter[aId[1]] = Pending
     /\ sentCount[aId[1]] > 0
     /\ driver = "None")
        ~> (aRes[1] = Closed \/ AttemptsExhausted)

\* C15: an id leaves the in-flight map only in on_message's handling of the
\* ActionResponse or Error that carries it, or in disconnect()'s clear; so a
\* teardown, a reconnect, a failed attempt or the cancellation of the caller
\* leave the map as it is.  And a call of action() has failed with "Socket
\* closed during rpc" only if a disconnect() has cleared the map.
C15_RemovalStep ==
    \A i \in in_flight_rpcs :
        i \notin in_flight_rpcs' =>
            \/ /\ supPc = "on_message" /\ supPc' = "loop"
               /\ cur.tag \in {"ActionResponse", "Error"}
               /\ cur.id = i
            \/ \E d \in Disconnectors : dPc[d] = "clear_rpcs" /\ dPc'[d] = "clear_subs"
C15_ClosedAfterClear ==
    \A c \in Callers :
        aRes[c] = Closed =>
            \E d \in Disconnectors : dPc[d] \in {"clear_subs", "take", "await", "returned"}
C15_RemovedOnlyByReplyOrClear == [][C15_RemovalStep /\ C15_ClosedAfterClear']_vars

\* C15 witness: a call was cancelled and its id is still in the map; the driver
\* its request was sent on has been torn down after the server closed the
\* connection, and the supervisor has reconnected; the next call is waiting.
C15_Witness ==
    /\ in_flight_rpcs = {0, 1}
    /\ aPc[1] = "wait" /\ aId[1] = 1
    /\ sentCount[0] = 1
    /\ attempts = 2 /\ driver = "Some" /\ lane = <<>>

\* C16: on_message dispatching Error{action_id: Some(id)} removes exactly the
\* waiter keyed by id and fulfils it with the failure that carries this error,
\* leaving every other entry of the in-flight map and every other waiter as it
\* was (all of them when the map has no entry for id); and an action() call
\* that returns a server error returns the one carrying its own id.
C16_ErrorStep ==
    (supPc = "on_message" /\ cur.tag = "Error" /\ cur.id # NoId /\ supPc' = "loop") =>
        /\ in_flight_rpcs' = in_flight_rpcs \ {cur.id}
        /\ \A i \in RpcIds :
              waiter'[i] = IF i = cur.id /\ i \in in_flight_rpcs THEN RespErr(i) ELSE waiter[i]
C16_OwnError == \A c \in Callers : aRes[c].st = "err" => aRes[c] = RespErr(aId[c])
C16_ErrorCorrelation == [][C16_ErrorStep /\ C16_OwnError']_vars

\* C16 witness: with two calls in flight, the error for id 0 has been
\* dispatched; its caller has returned that error and the other call is still
\* waiting, its entry in the map.
C16_Witness ==
    /\ cur = ErrorMsg(0) /\ supPc = "loop"
    /\ waiter[0] = RespErr(0) /\ waiter[1] = Pending
    /\ in_flight_rpcs = {1}
    /\ \E c \in Callers : aRes[c] = RespErr(0) /\ aId[c] = 0

\* C17: on_message dispatching Error{action_id: None} changes nothing: the
\* in-flight map, the waiters, the results of the callers, the outbound queue,
\* the subscription map, the driver slot and the driver task are as before, and
\* the supervisor goes back to reading from the same driver in the same attempt.
C17_ConnectionErrorStep ==
    (supPc = "on_message" /\ cur.tag = "Error" /\ cur.id = NoId /\ supPc # supPc') =>
        /\ UNCHANGED <<in_flight_rpcs, waiter, aRes, aPc, msg_queue, event_subscriptions>>
        /\ UNCHANGED <<driver, driverTask, lane, attempts>>
        /\ supPc' = "loop"
C17_ConnectionErrorIgnored == [][C17_ConnectionErrorStep]_vars

\* C17 witness: a connection-level error has been dispatched while a call was
\* waiting for the response to a request the driver had accepted; the call is
\* still waiting and its entry is still in the map.
C17_Witness ==
    /\ cur = ErrorMsg(NoId) /\ supPc = "loop"
    /\ \E c \in Callers :
          /\ aPc[c] = "wait" /\ waiter[aId[c]] = Pending
          /\ aId[c] \in in_flight_rpcs /\ aId[c] \in RequestIds(lane)

\* the SubscriptionRequests for name n that the driver has accepted: those of
\* on_open's loop, and all of them
Resubs(l, n) ==
    Cardinality({k \in 1..Len(l) : l[k].via = "resub" /\ l[k].msg.name = n})
Subs(l, n) ==
    Cardinality({k \in 1..Len(l) : l[k].msg.tag = "SubscriptionRequest" /\ l[k].msg.name = n})

\* C18: every send_msg of on_open's subscription loop finds the driver in the
\* slot and hands it the request; and when on_open has finished that loop, the
\* driver has been handed no request of the loop for a name that is not in the
\* subscription map, and for a name that is in the map it has been handed one,
\* however many callbacks the name has: its outbound channel holds that one,
\* unless the driver task has ended, in which case the channel refused it.
\* (The server sends one Init on a connection.)
C18_HandOverStep ==
    (supPc = "open_sub_send" /\ supPc' # supPc) => driver = "Some"
C18_LoopDoneStep ==
    (supPc # "flush_lock" /\ supPc' = "flush_lock") =>
        \A n \in EventNames :
            /\ Resubs(lane', n) <= (IF event_subscriptions'[n] > 0 THEN 1 ELSE 0)
            /\ (event_subscriptions'[n] > 0 /\ driverTask' = "running") => Resubs(lane', n) = 1
C19_SubscribedOnceOnFirstAttach ==
    (attempts = 1 /\ did_open /\ supPc = "loop" /\ driverTask = "running" /\ ePc = "idle") =>
        \A n \in EventNames : event_subscriptions[n] > 0 => Subs(lane, n) = 1

\* C20: the driver is handed an ActionRequest only after the Init has been
\* received on it.
C20_AttachingQueues ==
    \A k \in 1..Len(lane) : lane[k].msg.tag = "ActionRequest" => lane[k].afterInit

\* C21: an attempt reports did_open exactly when an Init was received during it;
\* after an attempt that opened, the supervisor starts the next attempt without
\* waiting and with a fresh Backoff (retry_attempt counts from 1 again); after an
\* attempt that did not open, the next attempt starts only after backoff.tick;
\* the wait ends without a further attempt when dc_watch is true or the shutdown
\* broadcast is received; and a supervisor that left its loops never attempts
\* again.  (Every Init carries the number of its connection, so the stored
\* connection id names the attempt whose Init was received last.)
SupStopped == supPc \in {"exit", "exit_take", "done"}
C21_DidOpenIffInit == supPc = "attempt_done" => (did_open <=> connection_id = attempts)
C21_AfterAttemptStep ==
    (supPc = "attempt_done" /\ supPc' # supPc) =>
        /\ dc_watch => supPc' = "exit"
        /\ (~dc_watch /\ did_open) => (supPc' = "keepalive" /\ retry_attempt' = 0)
        /\ (~dc_watch /\ ~did_open) => (supPc' = "backoff" /\ retry_attempt' = retry_attempt)
C21_AttemptStep ==
    /\ (supPc = "keepalive" /\ supPc' # supPc) =>
           (supPc' = "connecting" /\ retry_attempt' = retry_attempt + 1)
    /\ attempts' # attempts => (supPc = "keepalive" /\ attempts' = attempts + 1)
    /\ (supPc # "keepalive" /\ supPc' = "keepalive") =>
           supPc \in {"spawned", "attempt_done", "backoff"}
C21_BackoffStep ==
    (supPc = "backoff" /\ supPc' # supPc) =>
        \/ supPc' = "keepalive" /\ retry_attempt' = retry_attempt /\ shutdown' = shutdown
        \/ supPc' = "exit" /\ (dc_watch \/ (shutdown = "sent" /\ shutdown' = "received"))
C21_StoppedStep == SupStopped => (SupStopped' /\ attempts' = attempts)
C21_ReconnectLoop ==
    /\ []C21_DidOpenIffInit
    /\ [][C21_AfterAttemptStep /\ C21_AttemptStep /\ C21_BackoffStep /\ C21_StoppedStep]_vars

\* C21 witness: the second attempt has been started right after an attempt that
\* received its Init, with a new Backoff.
C21_Witness ==
    /\ supPc = "connecting" /\ attempts = 2 /\ retry_attempt = 1
    /\ connection_id = 1 /\ ~dc_watch /\ shutdown = "none"

\* C22: on a connection made with the SSE transport every attempt fails at
\* connect time: no attempt opens, no driver is ever stored or running and no
\* Init is ever received; each failed attempt is followed by the backoff wait,
\* the next attempt follows a tick of the same Backoff, and the supervisor leaves
\* its loops only after disconnect() or the shutdown broadcast.
C22_NeverOpens ==
    transport_kind = "Sse" =>
        /\ driver = "None" /\ driverTask = "none"
        /\ ~did_open /\ connection_id = NoId /\ inbound = <<>>
        /\ SupStopped => (dc_watch \/ shutdown = "received")
C22_RetryStep ==
    transport_kind = "Sse" =>
        /\ (supPc = "connecting" /\ supPc' # supPc) => supPc' = "attempt_done"
        /\ (supPc = "attempt_done" /\ supPc' # supPc /\ ~dc_watch) => supPc' = "backoff"
        /\ (attempts' # attempts /\ attempts > 0) => retry_attempt' = attempts'
C22_SseRetriesUntilStopped == []C22_NeverOpens /\ [][C22_RetryStep]_vars

\* C22 witness: the second attempt of an SSE connection has failed like the
\* first, and the supervisor waits in its backoff again; nobody has called
\* disconnect() and the Client lives.
C22_Witness ==
    /\ transport_kind = "Sse" /\ attempts = 2 /\ retry_attempt = 2 /\ supPc = "backoff"
    /\ ~dc_watch /\ shutdown = "none"

\* C23 as stated: on a handle made with a GetForKey or GetOrCreateForKey query,
\* from the first successful resolve() on the cell holds GetForId with the
\* original name and the id that resolve() returned.
Keyed(q) == q.kind \in {"GetForKey", "GetOrCreateForKey"}
C23_CellKeepsFirstId ==
    (Keyed(query0) /\ firstOk # NoActor) => query = GetForId(query0.name, firstOk)

\* C23, amended: a resolve() that gets an id from the control plane writes
\* GetForId{original name, that id} into the cell and nothing else ever writes
\* the cell; a resolve() that finds GetForId in the cell returns the cell's id
\* without a request to the control plane and without writing; a resolve() that
\* fails leaves the cell as it was; on a handle made with GetForId the cell never
\* changes and the control plane is never asked; and as long as no two resolve()
\* futures of the handle have been in flight together, the cell keeps the id of
\* the first successful resolve() and only the calls before it went to the
\* control plane.
C23_WriteStep ==
    query' # query =>
        \E r \in Resolvers :
            /\ rPc[r] = "awaiting" /\ rPc'[r] = "idle"
            /\ rRes'[r].ok
            /\ query' = GetForId(query0.name, rRes'[r].val)
C23_LaterStep ==
    (resolves' # resolves /\ query.kind = "GetForId") =>
        /\ \E r \in Resolvers : rRes'[r] = Ok(query.actor_id) /\ rPc'[r] = "idle"
        /\ plane_calls' = plane_calls
        /\ query' = query
C23_FailStep ==
    \A r \in Resolvers :
        (rPc[r] = "awaiting" /\ rPc'[r] = "idle" /\ ~rRes'[r].ok) => query' = query
C23_Sequential ==
    /\ (Keyed(query0) /\ firstOk # NoActor /\ ~overlapped) =>
           /\ query = GetForId(query0.name, firstOk)
           /\ \A r \in Resolvers : rRes[r].ok => rRes[r].val = firstOk
    /\ query0.kind = "GetForId" => (query = query0 /\ plane_calls = 0)
C23_ResolveMemoizes ==
    []C23_Sequential /\ [][C23_WriteStep /\ C23_LaterStep /\ C23_FailStep]_vars

\* C23 witness: on a GetOrCreateForKey handle the first resolve() failed, the
\* second got a1 from the control plane, and the third returned a1 from the
\* cell without a request.
C23_Witness ==
    /\ query0 = GetOrCreateForKey("room") /\ query = GetForId("room", "a1")
    /\ resolves = 3 /\ plane_calls = 2 /\ ~overlapped
    /\ rRes[1] = Ok("a1") /\ rRes[2] = Err("actor not found")

\* C24: for every 2xx response list, get_for_id returns the id of the first
\* actor of the list whose name equals the requested name, also when actors
\* with other names precede it, and None when no actor of the list has that name.
Matches(list, n) == {k \in 1..Len(list) : list[k].name = n}
FirstMatch(list, n) ==
    IF Matches(list, n) = {}
    THEN None
    ELSE list[CHOOSE k \in Matches(list, n) : \A j \in Matches(list, n) : k <= j].actor_id
C24_ReturnsFirstMatch ==
    (found # NoResult /\ http_ok) => found = Ok(FirstMatch(data, req_name))

\* C25: the request open_websocket gives to connect_async lists rivet,
\* rivet_target.actor, rivet_actor.<id>, rivet_encoding.<json|cbor> first, in
\* that order, then one entry for each of token, params, conn_id and conn_token
\* that is present and none for one that is absent, in the order rivet_token,
\* rivet_conn_params, rivet_conn, rivet_conn_token, each with its value (the
\* params url-encoded JSON); with an endpoint that starts with neither http://
\* nor https:// the call returns "invalid endpoint URL" and no request is made,
\* and with any other endpoint a request is made, to wss:// or ws://.
Returned == ws_out.err # "-" \/ ws_out.request # NoRequest
Rank(p) ==
    CASE p = WS_PROTOCOL.TOKEN -> 1
      [] p = WS_PROTOCOL.CONN_PARAMS -> 2
      [] p = WS_PROTOCOL.CONN_ID -> 3
      [] p = WS_PROTOCOL.CONN_TOKEN -> 4
      [] OTHER -> 0
Entries(p, prefix) == {k \in 5..Len(p) : p[k].prefix = prefix}
Listed(p, prefix, v, enc) ==
    IF v = None
    THEN Entries(p, prefix) = {}
    ELSE /\ Cardinality(Entries(p, prefix)) = 1
         /\ \A k \in Entries(p, prefix) : p[k].value = v /\ p[k].enc = enc
C25_ProtocolOrder ==
    (ws_out.request # NoRequest) =>
        LET p == ws_out.request.protocols
            a == ws_args
        IN  /\ Len(p) >= 4
            /\ p[1].prefix = "rivet" /\ p[1].value = ""
            /\ p[2].prefix = "rivet_target." /\ p[2].value = "actor"
            /\ p[3].prefix = "rivet_actor." /\ p[3].value = a.actor_id
            /\ p[4].prefix = "rivet_encoding." /\ p[4].value = a.encoding
            /\ a.encoding \in {"json", "cbor"}
            /\ \A k \in 1..4 : p[k].enc = "plain"
            /\ Listed(p, "rivet_token.", a.token, "plain")
            /\ Listed(p, "rivet_conn_params.", a.params, "urlencoded json")
            /\ Listed(p, "rivet_conn.", a.conn_id, "plain")
            /\ Listed(p, "rivet_conn_token.", a.conn_token, "plain")
            /\ \A k \in 5..Len(p) : Rank(p[k].prefix) > 0
            /\ \A j, k \in 5..Len(p) : j < k => Rank(p[j].prefix) < Rank(p[k].prefix)
C25_InvalidEndpoint ==
    Returned =>
        IF ws_args.endpoint.scheme \in {"http://", "https://"}
        THEN /\ ws_out.err # "invalid endpoint URL"
             /\ ws_out.request # NoRequest
             /\ ws_out.request.url[1] =
                    (IF ws_args.endpoint.scheme = "https://" THEN "wss://" ELSE "ws://")
        ELSE ws_out.err = "invalid endpoint URL" /\ ws_out.request = NoRequest
C25_OpenWebsocket == C25_ProtocolOrder /\ C25_InvalidEndpoint

\* C25 witness: a call with token, params, conn_id and conn_token has made its
\* request, with all eight entries.
C25_Witness ==
    /\ ws_out.request # NoRequest /\ Len(ws_out.request.protocols) = 8
    /\ ws_args.endpoint.scheme = "https://" /\ ws_args.encoding = "cbor"

\* C26: the flush of on_open never waits for the lock of msg_queue while the
\* supervisor itself holds it: when the driver refuses a message of the flush,
\* send_msg can push it back and on_open goes on.
C26_FlushNeverWaitsForOwnLock == ~(supPc = "flush_queue" /\ queueLock = SUP)

\* C27: every send_msg of a caller of action() completes, whatever on_open,
\* disconnect() and the driver do meanwhile: with the driver absent or refusing
\* it returns after queueing the request.
C27_SendMsgCompletes ==
    \A c \in {1} : (aPc[c] \in {"send", "queue"}) ~> (aPc[c] \notin {"send", "queue"})

\* C28: outside try_connect, and in try_connect before connect_driver has
\* returned a driver, the driver slot is empty and no driver task runs: when
\* try_connect returns, the slot is empty and the attempt's driver has stopped,
\* whatever disconnect() did meanwhile; only try_connect fills the slot, after a
\* successful connect_driver, and only its teardown empties it.
InAttempt ==
    supPc \in {"store", "loop", "on_message", "open_subs", "open_sub_send",
               "open_sub_queue", "flush_lock", "flush_send", "flush_queue", "destroy"}
C28_EmptyOutsideAttempt ==
    /\ ~InAttempt => (driver = "None" /\ driverTask # "running")
    /\ supPc = "store" => driver = "None"
C28_SlotStep ==
    driver' # driver =>
        \/ supPc = "store" /\ supPc' = "loop" /\ driver' = "Some"
        \/ supPc = "destroy" /\ supPc' = "attempt_done" /\ driver' = "None"
C28_SlotEmptyAtReturn == []C28_EmptyOutsideAttempt /\ [][C28_SlotStep]_vars

\* C28 witness: try_connect has returned from an attempt that had opened and
\* whose driver disconnect() aborted; disconnect() is past its use of the slot.
C28_Witness ==
    /\ supPc = "attempt_done" /\ did_open /\ driver = "None"
    /\ driverTask = "UserAborted" /\ dPc[1] \in {"clear_rpcs", "clear_subs", "take", "await"}

\* C29: a second start_connection on a connection whose supervisor is still in
\* its loops never starts a second loop, also after disconnect() has taken the
\* completion receiver out of disconnection_rx.
SupInLoops ==
    supPc \in {"keepalive", "connecting", "store", "loop", "on_message", "open_subs",
               "open_sub_send", "open_sub_queue", "flush_lock", "flush_send",
               "flush_queue", "destroy", "attempt_done", "backoff"}
C29_OneSupervisorLoop == ~(sup2Pc = "keepalive" /\ SupInLoops)

\* C30: the supervisor takes a message for dispatch only between dispatches,
\* and then the oldest one of the inbound channel, to which the driver appends
\* in the order of arrival; while on_message runs (with the whole of on_open
\* for an Init) the message being dispatched does not change and no other
\* message is taken, until on_message has returned to try_connect's loop.
InOnMessage ==
    supPc \in {"on_message", "open_subs", "open_sub_send", "open_sub_queue",
               "flush_lock", "flush_send", "flush_queue"}
C30_TakeStep ==
    (cur' # cur \/ (~InOnMessage /\ InOnMessage')) =>
        /\ supPc = "loop" /\ supPc' = "on_message"
        /\ inbound # <<>>
        /\ cur' = inbound[1]
        /\ inbound' = Tail(inbound)
C30_DeliverStep ==
    Len(inbound') > Len(inbound) =>
        (Len(inbound') = Len(inbound) + 1 /\ SubSeq(inbound', 1, Len(inbound)) = inbound)
C30_DispatchStep ==
    InOnMessage =>
        /\ cur' = cur
        /\ InOnMessage' \/ supPc' = "loop"
        /\ Len(inbound') >= Len(inbound)
C30_InOrderNoReentry == [][C30_TakeStep /\ C30_DeliverStep /\ C30_DispatchStep]_vars

\* C30 witness: on_open is flushing the queue for the Init of the first
\* connection while the next message of the driver, an event, waits in the
\* channel.
C30_Witness ==
    /\ supPc = "flush_send" /\ cur = InitMsg(1)
    /\ inbound = <<EventMsg("joined")>>


\* C31: the driver task returns ServerDisconnect on a Close frame and on the end
\* of the stream, ServerError on a WebSocket error, UserAborted on a frame that
\* parsed while the inbound receiver was dropped, and no other item of the
\* stream stops it; a message the serializer refuses and a frame that does not
\* parse leave the socket and the inbound channel as they were and the task running
C31_StopStep ==
    inboundCount' # inboundCount =>
        /\ ws_frame'.kind \in {"Close", "None"} => driverTask' = "ServerDisconnect"
        /\ ws_frame'.kind = "Err" => driverTask' = "ServerError"
        /\ (ws_frame'.body \in {InitMsg(0), ActionResponse(0)} /\ ~ends.in_rx)
              => driverTask' = "UserAborted"
        /\ driverTask' # "running" =>
              \/ ws_frame'.kind \in {"Close", "None", "Err"}
              \/ ws_frame'.body \in {InitMsg(0), ActionResponse(0)} /\ ~ends.in_rx
C31_DropStep ==
    /\ (taken' # taken /\ ~Head(out_rx).ser) =>
          /\ ws_sink' = ws_sink
          /\ out_rx' = Tail(out_rx)
          /\ driverTask' = "running"
    /\ (inboundCount' # inboundCount /\ ws_frame'.body = Unparsable) =>
          /\ inbound' = inbound
          /\ driverTask' = "running"
C31_DriverStops == [][C31_StopStep /\ C31_DropStep]_vars
\* the first message was refused by the serializer and the second reached the
\* socket; a frame that did not parse was followed by one that did, which found
\* the receiver dropped
C31_Witness ==
    /\ driverTask = "UserAborted"
    /\ taken = 2
    /\ ws_sink = <<Frame("Text", ActionRequest(1))>>
    /\ inboundCount = 2
    /\ ws_frame.body = InitMsg(0)
    /\ inbound = <<>>
    /\ ends.out_tx


\* the holder of the lock a task is suspended on, NoOwner when the task waits
\* for no lock or for a free one
HolderAwaited(p) ==
    IF AtSendMsg(p) THEN driverLock
    ELSE IF AtSendMsgQueue(p) THEN queueLock
    ELSE IF p = SUP /\ supPc \in {"store", "destroy"} THEN driverLock
    ELSE IF p = SUP /\ supPc = "flush_lock" THEN queueLock
    ELSE IF p = SUP /\ supPc = "open_subs" THEN subsLock
    ELSE NoOwner
WaitsFor == [p \in Procs \cup {NoOwner} |-> IF p = NoOwner THEN NoOwner ELSE HolderAwaited(p)]

\* C32: the supervisor and the callers of action() and on_event() never wait on
\* each other in a cycle over the locks of the driver, of msg_queue and of
\* event_subscriptions: following, from any task, the holder of the lock it
\* waits for never leads back to that task.
C32_NoLockCycle ==
    \A p \in Procs :
        /\ WaitsFor[p] # p
        /\ WaitsFor[WaitsFor[p]] # p
        /\ WaitsFor[WaitsFor[WaitsFor[p]]] # p


\* C33: when try_connect returns, the inbound channel of its driver is empty:
\* every message the driver task put into it was taken by recver.recv() and
\* given to on_message, so that a buffered ActionResponse has fulfilled its
\* waiter and a buffered Init has set did_open.
C33_ReturnStep == (supPc = "destroy" /\ supPc' = "attempt_done") => inbound = <<>>
C33_InboundDrained == [][C33_ReturnStep]_vars


\* C34: under fair scheduling, a call of action() that is in progress once
\* disconnect() has returned comes to its end: its waiter is fulfilled or
\* dropped (unless the model's bound on attempts stops the supervisor).
C34_ActionReturnsAfterDisconnect ==
    (dPc[1] = "returned" /\ aPc[1] # "idle") ~> (aPc[1] = "idle" \/ AttemptsExhausted)

=============================================================================
